---- MODULE Spec2Model ----
(***************************************************************************)
(* Model of src/app.py: the Streamlit dashboard that polls the drones and  *)
(* violated_pilots tables through the memoised run_query (ttl = 10),       *)
(* annotates both snapshots with distances from the nest, partitions the   *)
(* drones into three position sets, renders them and sleeps 3 seconds.     *)
(*                                                                         *)
(* Cell values are integers so that records of one table stay comparable:  *)
(* None is Python's None (SQL NULL), NaN the float missing value pandas    *)
(* puts into a numeric column, True/False the Python booleans.             *)
(***************************************************************************)
EXTENDS Integers, FiniteSets, Sequences, TLC

\* ---------------------------------------------------------------- constants
CENTER_X == 250000
CENTER_Y == 250000
TTL == 10
SLEEP_SECONDS == 3
METER_SCALE == 1000

None == -1
NaN == -9
True == 1
False == 0

\* ------------------------------------------------------------------- bounds
MaxAge == 11
MaxDrones == 2
MaxPilots == 1
MaxSessions == 1
MaxRecords == 3

\* ------------------------------------------------------------- query kinds
\* The members of the Query enum, and an argument that is neither.
DRONES == "drones"
PILOTS == "pilots"
INVALID == "other"
Query == {DRONES, PILOTS}
QueryArgs == {DRONES, PILOTS, INVALID}

\* --------------------------------------------------------- backing store
\* Rows of the drones table, as Drones.to_dict gives them (the columns the
\* loop reads).
Drone(sn, x, y, flag, pid) ==
    [serial_number |-> sn, position_x |-> x, position_y |-> y,
     is_violating_ndz |-> flag, violated_pilot_id |-> pid]

\* Rows of the violated_pilots table, as ViolatedPilots.to_dict gives them.
Pilot(id, lx, ly, nx, ny) ==
    [pilot_id |-> id, last_violation_x |-> lx, last_violation_y |-> ly,
     nearest_violation_x |-> nx, nearest_violation_y |-> ny]

\* Rows the external ingestion process may have written: an unlinked drone
\* at the nest with the flag set, and an unlinked drone without position_x.
DroneRows ==
    { Drone(1, 250000, 250000, True, None),
      Drone(2, None, 254000, False, None) }

\* A complete pilot row, and one without nearest_violation_x.
PilotRows ==
    { Pilot(1, 253000, 254000, 250000, 246000),
      Pilot(2, 253000, 254000, None, 254000) }

DroneTables == { t \in SUBSET DroneRows : Cardinality(t) <= MaxDrones }
PilotTables == { t \in SUBSET PilotRows : Cardinality(t) <= MaxPilots }

Tables(q) == IF q = DRONES THEN DroneTables ELSE PilotTables

VARIABLES
    db,             \* the backing store: db[q] is the table query q selects
    memo,           \* the st.experimental_memo cache of run_query
    open_sessions,  \* Session objects opened and not closed
    result,         \* outcome of run_query when the latest step was a call
    pc,             \* position of the main loop
    drones,         \* loop variable: the drone snapshot
    pilots,         \* loop variable: the pilot snapshot
    drones_df,      \* loop variable: the annotated drone frame
    pilots_df,      \* loop variable: the annotated pilot frame
    positions,      \* loop variables: the three position frames
    error,          \* the exception that left the loop, if any
    fetch_gap       \* time passed since the drone fetch while the pilot fetch is due

cache_vars == <<db, memo, open_sessions, result>>
loop_vars == <<pc, drones, pilots, drones_df, pilots_df, positions, error>>
vars == <<db, memo, open_sessions, result, pc, drones, pilots, drones_df, pilots_df,
          positions, error, fetch_gap>>

\* --------------------------------------------------------------- run_query
\* A memo entry holds the pickled return value and the time it was stored.
\* The clock enters the program only through differences now - stored_at,
\* so an entry carries its age (now - stored_at), which the passing of time
\* increases; ages of MaxAge and more are not told apart.
NoEntry == [present |-> FALSE, value |-> {}, age |-> 0]
NoResult == [query |-> INVALID, status |-> "none", value |-> {}, hit |-> FALSE,
             age |-> 0, db_reads |-> 0, expired |-> FALSE]
RAISE == "Invalid Query"

\* The statement a query selects from; raises for anything that is neither
\* Query.DRONES nor Query.PILOTS.
string_to_stmt_factory_lenient(q) ==
    IF q = PILOTS THEN PILOTS ELSE DRONES

string_to_stmt_factory(q) ==
    IF q = DRONES THEN DRONES
    ELSE IF q = PILOTS THEN PILOTS
    ELSE RAISE

\* The memo serves the entry of q while it is younger than ttl = 10.
MemoFresh_never_expires(q) == memo[q].present

MemoFresh_never_hits(q) == FALSE

MemoFresh_inclusive(q) == memo[q].present /\ memo[q].age <= TTL

MemoFresh_one_cycle(q) == memo[q].present /\ memo[q].age < SLEEP_SECONDS

MemoFresh_expires_early(q) == memo[q].present /\ memo[q].age < TTL - 1

MemoFresh(q) == memo[q].present /\ memo[q].age < TTL

\* What run_query(q) returns or raises; up tells whether the read session
\* to the backing store succeeds. age is the age of the snapshot returned,
\* db_reads the session.execute calls the call completed, expired whether
\* the call found an entry that had outlived ttl.
run_query_outcome(q, up) ==
    IF MemoFresh(q)
    THEN [query |-> q, status |-> "ok", value |-> memo[q].value, hit |-> TRUE,
          age |-> memo[q].age, db_reads |-> 0, expired |-> FALSE]
    ELSE IF string_to_stmt_factory(q) = RAISE
    THEN [query |-> q, status |-> "InvalidQuery", value |-> {}, hit |-> FALSE,
          age |-> 0, db_reads |-> 0, expired |-> memo[q].present]
    ELSE IF ~up
    THEN [query |-> q, status |-> "StoreUnavailable", value |-> {}, hit |-> FALSE,
          age |-> 0, db_reads |-> 0, expired |-> memo[q].present]
    ELSE [query |-> q, status |-> "ok", value |-> db[string_to_stmt_factory(q)],
          hit |-> FALSE, age |-> 0, db_reads |-> 1, expired |-> memo[q].present]

\* A call that stores an empty snapshot when the read fails.
run_query_stores_failure(q, up) ==
    LET r == run_query_outcome(q, up) IN
    /\ up \/ open_sessions < MaxSessions
    /\ result' = r
    /\ memo' = IF r.status \in {"ok", "StoreUnavailable"} /\ ~r.hit
               THEN [memo EXCEPT ![q] = [present |-> TRUE, value |-> r.value, age |-> 0]]
               ELSE memo
    /\ open_sessions' = IF r.status = "StoreUnavailable"
                        THEN open_sessions + 1
                        ELSE open_sessions

\* The whole call: the memo lookup and, on a miss, the body of run_query and
\* the storing of its return value. A session whose execute raises is never
\* closed.
run_query(q, up) ==
    LET r == run_query_outcome(q, up) IN
    /\ up \/ open_sessions < MaxSessions
    /\ result' = r
    /\ memo' = IF r.status = "ok" /\ ~r.hit
               THEN [memo EXCEPT ![q] = [present |-> TRUE, value |-> r.value, age |-> 0]]
               ELSE memo
    /\ open_sessions' = IF r.status = "StoreUnavailable"
                        THEN open_sessions + 1
                        ELSE open_sessions

\* ------------------------------------------------------------ environment
Older_evicts(entry, d) ==
    IF entry.present /\ entry.age + d >= TTL THEN NoEntry
    ELSE IF entry.present THEN [entry EXCEPT !.age = @ + d]
    ELSE entry

Older(entry, d) ==
    IF entry.present
    THEN [entry EXCEPT !.age = IF @ + d > MaxAge THEN MaxAge ELSE @ + d]
    ELSE entry

Elapse(d) == memo' = [q \in QueryArgs |-> Older(memo[q], d)]

\* Gaps of MaxGap and more are not told apart: from there on TTL + gap is
\* above every age that is.
MaxGap == MaxAge - TTL + 1

\* Time passes while the program runs.
Tick ==
    /\ Elapse(1)
    /\ fetch_gap' = IF pc /= "fetch_pilots" THEN fetch_gap
                    ELSE IF fetch_gap < MaxGap THEN fetch_gap + 1
                    ELSE MaxGap
    /\ result' = NoResult
    /\ UNCHANGED <<db, open_sessions>>
    /\ UNCHANGED loop_vars

\* The external ingestion process rewrites a table.
Ingest ==
    /\ \E q \in Query : \E t \in Tables(q) :
          /\ t /= db[q]
          /\ db' = [db EXCEPT ![q] = t]
    /\ result' = NoResult
    /\ UNCHANGED <<memo, open_sessions, fetch_gap>>
    /\ UNCHANGED loop_vars

\* ---------------------------------------------- run_query called directly
Call ==
    /\ \E q \in QueryArgs : \E up \in BOOLEAN : run_query(q, up)
    /\ UNCHANGED <<db, fetch_gap>>
    /\ UNCHANGED loop_vars

NoFrame == [columns |-> FALSE, rows |-> {}]
NoPositions == [bad_currently_violating |-> {}, bad_not_currently_violating |-> {},
                good_drones |-> {}]
NoError == [type |-> "none", at |-> "none"]

\* ------------------------------------------------------------------ pandas
\* pd.isna: None and NaN are both missing.
isna(v) == v = None \/ v = NaN

\* pd.DataFrame(records) infers each column's dtype: a numeric column in
\* which some record has a value becomes float64 and holds NaN where a
\* record has None; a column in which no record has a value stays dtype
\* object and keeps None.
Inferred(records, col, r) ==
    IF r[col] = None /\ \E o \in records : o[col] /= None THEN NaN ELSE r[col]

\* The frame of the drone snapshot; a frame built from no records has no
\* columns. index stands for the row label, which selections keep.
DronesFrame(records) ==
    [columns |-> records /= {},
     rows |-> { [index |-> r.serial_number,
                 position_x |-> Inferred(records, "position_x", r),
                 position_y |-> Inferred(records, "position_y", r),
                 is_violating_ndz |-> r.is_violating_ndz,
                 violated_pilot_id |-> Inferred(records, "violated_pilot_id", r)]
                : r \in records }]

PilotsFrame(records) ==
    [columns |-> records /= {},
     rows |-> { [index |-> r.pilot_id,
                 last_violation_x |-> Inferred(records, "last_violation_x", r),
                 last_violation_y |-> Inferred(records, "last_violation_y", r),
                 nearest_violation_x |-> Inferred(records, "nearest_violation_x", r),
                 nearest_violation_y |-> Inferred(records, "nearest_violation_y", r)]
                : r \in records }]

\* ------------------------------------------------------------- the distance
\* Python computes the squares without overflow (a float holds every
\* integer below 2^53); an integer of the model has 32 bits, so a square
\* and a sum of squares is the pair <<hi, lo>> standing for hi * Limb + lo,
\* 0 <= lo < Limb.
Limb == 1000 * 1000

\* d ** 2, from d = a * 1000 + b.
Square(d) ==
    LET a == d \div 1000
        b == d % 1000
        m == 2 * a * b * 1000 + b * b
    IN <<a * a + m \div Limb, m % Limb>>

Plus(u, v) == <<u[1] + v[1] + (u[2] + v[2]) \div Limb, (u[2] + v[2]) % Limb>>

AtMost(u, v) == u[1] < v[1] \/ (u[1] = v[1] /\ u[2] <= v[2])

\* The bits of the root from bit k down, s the bits found so far.
Root[n \in Nat \X Nat, k \in Nat, s \in Nat] ==
    LET t == IF AtMost(Square(s + 2^k), n) THEN s + 2^k ELSE s IN
    IF k = 0 THEN t ELSE Root[n, k - 1, t]

\* Newton's iteration for a sum that fits 31 bits, from an x above the root.
Newton[n \in Nat, x \in Nat] ==
    LET y == (x + n \div x) \div 2 IN
    IF y >= x THEN x ELSE Newton[n, y]

\* math.sqrt on the sums the model feeds it, all perfect squares below 2^40.
Sqrt(n) ==
    IF n = <<0, 0>> THEN 0
    ELSE IF n[1] < 2000 THEN Newton[n[1] * Limb + n[2], 1000 * (n[1] + 1)]
    ELSE Root[n, 19, 0]

\* None - CENTER_X raises TypeError.
distance_from_nest_raises(x, y) == x = None \/ y = None

\* NaN propagates through the arithmetic and math.sqrt.
distance_along_x(x, y) ==
    IF x = NaN \/ y = NaN
    THEN NaN
    ELSE Sqrt(Square(x - CENTER_X)) \div METER_SCALE

distance_from_origin(x, y) ==
    IF x = NaN \/ y = NaN
    THEN NaN
    ELSE Sqrt(Plus(Square(x), Square(y))) \div METER_SCALE

distance_from_nest_in_meter(x, y) ==
    IF x = NaN \/ y = NaN
    THEN NaN
    ELSE Sqrt(Plus(Square(x - CENTER_X), Square(y - CENTER_Y))) \div METER_SCALE

\* ------------------------------------------------------ the classification
Position(r) == [index |-> r.index, position_x |-> r.position_x, position_y |-> r.position_y]

\* drones_df[pd.isna(drones_df['violated_pilot_id'])]
bad_drones(rows) == { r \in rows : isna(r.violated_pilot_id) }

\* bad_drones[bad_drones['is_violating_ndz']]
bad_currently_violating(bad) ==
    { Position(r) : r \in { b \in bad : b.is_violating_ndz = True } }

\* bad_drones[~bad_drones['is_violating_ndz']]
bad_not_currently_violating_unnegated(bad) ==
    { Position(r) : r \in { b \in bad : b.is_violating_ndz = True } }

bad_not_currently_violating(bad) ==
    { Position(r) : r \in { b \in bad : b.is_violating_ndz = False } }

\* drones_df[~pd.isna(drones_df['violated_pilot_id'])]
good_drones_by_flag(rows) ==
    { Position(r) : r \in { d \in rows : d.is_violating_ndz = False } }

good_drones(rows) ==
    { Position(r) : r \in { d \in rows : ~isna(d.violated_pilot_id) } }

\* The is_violating_ndz column is dtype bool unless a record has None in it;
\* then it is dtype object.
ObjectFlags(rows) == \E r \in rows : r.is_violating_ndz = None

\* ------------------------------------------------------------ the main loop
\* The statements of the loop body in program order; the body repeats.
Following_sleep_before_render(p) ==
    CASE p = "fetch_drones" -> "fetch_pilots"
      [] p = "fetch_pilots" -> "process_drones"
      [] p = "process_drones" -> "process_pilots"
      [] p = "process_pilots" -> "classify"
      [] p = "classify" -> "sleep"
      [] p = "sleep" -> "render"
      [] p = "render" -> "fetch_drones"

Following(p) ==
    CASE p = "fetch_drones" -> "fetch_pilots"
      [] p = "fetch_pilots" -> "process_drones"
      [] p = "process_drones" -> "process_pilots"
      [] p = "process_pilots" -> "classify"
      [] p = "classify" -> "render"
      [] p = "render" -> "sleep"
      [] p = "sleep" -> "fetch_drones"

\* Nothing in the loop catches: an exception leaves the while loop.
OnRaise_next_cycle(p) == "sleep"

OnRaise(p) == "stopped"

Raise(type) ==
    /\ error' = [type |-> type, at |-> pc]
    /\ pc' = OnRaise(pc)

\* drones = run_query(Query.DRONES)
FetchDrones ==
    /\ pc = "fetch_drones"
    /\ \E up \in BOOLEAN :
          /\ run_query(DRONES, up)
          /\ IF run_query_outcome(DRONES, up).status = "ok"
             THEN /\ drones' = run_query_outcome(DRONES, up).value
                  /\ pc' = Following(pc)
                  /\ UNCHANGED error
             ELSE /\ Raise(run_query_outcome(DRONES, up).status)
                  /\ UNCHANGED drones
    /\ fetch_gap' = 0
    /\ UNCHANGED <<db, pilots, drones_df, pilots_df, positions>>

\* pilots = run_query(Query.PILOTS)
FetchPilots ==
    /\ pc = "fetch_pilots"
    /\ \E up \in BOOLEAN :
          /\ run_query(PILOTS, up)
          /\ IF run_query_outcome(PILOTS, up).status = "ok"
             THEN /\ pilots' = run_query_outcome(PILOTS, up).value
                  /\ pc' = Following(pc)
                  /\ UNCHANGED error
             ELSE /\ Raise(run_query_outcome(PILOTS, up).status)
                  /\ UNCHANGED pilots
    /\ fetch_gap' = 0
    /\ UNCHANGED <<db, drones, drones_df, pilots_df, positions>>

\* The frame of the drones and its current_distance_from_nest_in_meter
\* column. On a frame without rows apply returns a frame, and the
\* assignment of a frame to one column either raises ValueError or leaves
\* the frame without the column, depending on the pandas release.
ProcessDrones ==
    /\ pc = "process_drones"
    /\ LET df == DronesFrame(drones) IN
       IF df.rows = {}
       THEN \/ /\ Raise("ValueError")
               /\ UNCHANGED drones_df
            \/ /\ drones_df' = df
               /\ pc' = Following(pc)
               /\ UNCHANGED error
       ELSE IF \E r \in df.rows : distance_from_nest_raises(r.position_x, r.position_y)
       THEN /\ Raise("TypeError")
            /\ UNCHANGED drones_df
       ELSE /\ drones_df' =
                 [df EXCEPT !.rows =
                     { [index |-> r.index,
                        position_x |-> r.position_x,
                        position_y |-> r.position_y,
                        is_violating_ndz |-> r.is_violating_ndz,
                        violated_pilot_id |-> r.violated_pilot_id,
                        current_distance_from_nest_in_meter |->
                            distance_from_nest_in_meter(r.position_x, r.position_y)]
                       : r \in df.rows }]
            /\ pc' = Following(pc)
            /\ UNCHANGED error
    /\ result' = NoResult
    /\ UNCHANGED <<db, memo, open_sessions, drones, pilots, pilots_df, positions,
                   fetch_gap>>

\* The frame of the pilots and its two distance columns.
ProcessPilots ==
    /\ pc = "process_pilots"
    /\ LET df == PilotsFrame(pilots) IN
       IF df.rows = {}
       THEN \/ /\ Raise("ValueError")
               /\ UNCHANGED pilots_df
            \/ /\ pilots_df' = df
               /\ pc' = Following(pc)
               /\ UNCHANGED error
       ELSE IF \E r \in df.rows :
                  \/ distance_from_nest_raises(r.last_violation_x, r.last_violation_y)
                  \/ distance_from_nest_raises(r.nearest_violation_x, r.nearest_violation_y)
       THEN /\ Raise("TypeError")
            /\ UNCHANGED pilots_df
       ELSE /\ pilots_df' =
                 [df EXCEPT !.rows =
                     { [index |-> r.index,
                        last_violation_x |-> r.last_violation_x,
                        last_violation_y |-> r.last_violation_y,
                        nearest_violation_x |-> r.nearest_violation_x,
                        nearest_violation_y |-> r.nearest_violation_y,
                        last_violation_distance_in_meter |->
                            distance_from_nest_in_meter(r.last_violation_x,
                                                        r.last_violation_y),
                        nearest_violation_distance_in_meter |->
                            distance_from_nest_in_meter(r.nearest_violation_x,
                                                        r.nearest_violation_y)]
                       : r \in df.rows }]
            /\ pc' = Following(pc)
            /\ UNCHANGED error
    /\ result' = NoResult
    /\ UNCHANGED <<db, memo, open_sessions, drones, pilots, drones_df, positions,
                   fetch_gap>>

\* The three position frames. A frame without columns has no
\* violated_pilot_id (KeyError). A mask of dtype object is refused when it
\* holds None or, after ~, the integers -2 and -1 (ValueError, KeyError);
\* an object mask without rows selects no column, or is taken as an empty
\* boolean mask.
Classify ==
    /\ pc = "classify"
    /\ LET bad == bad_drones(drones_df.rows)
           done == /\ positions' =
                        [bad_currently_violating |-> bad_currently_violating(bad),
                         bad_not_currently_violating |-> bad_not_currently_violating(bad),
                         good_drones |-> good_drones(drones_df.rows)]
                   /\ pc' = Following(pc)
                   /\ UNCHANGED error
           fail == /\ Raise("KeyError")
                   /\ UNCHANGED positions
       IN
       IF ~drones_df.columns THEN fail
       ELSE IF ~ObjectFlags(drones_df.rows) THEN done
       ELSE IF bad /= {} THEN fail
       ELSE fail \/ done
    /\ result' = NoResult
    /\ UNCHANGED <<db, memo, open_sessions, drones, pilots, drones_df, pilots_df,
                   fetch_gap>>

\* The tables and plots are written from the frames; a pilot frame without
\* columns has no display columns to select (KeyError).
Render_deletes_shown ==
    /\ pc = "render"
    /\ pc' = Following(pc)
    /\ db' = [db EXCEPT ![DRONES] = {}]
    /\ result' = NoResult
    /\ UNCHANGED <<memo, open_sessions, drones, pilots, drones_df, pilots_df,
                   positions, error, fetch_gap>>

Render ==
    /\ pc = "render"
    /\ IF ~pilots_df.columns
       THEN Raise("KeyError")
       ELSE /\ pc' = Following(pc)
            /\ UNCHANGED error
    /\ result' = NoResult
    /\ UNCHANGED <<db, memo, open_sessions, drones, pilots, drones_df, pilots_df,
                   positions, fetch_gap>>

\* time.sleep(3); the next pass overwrites every loop variable before it
\* reads it, so the variables are dropped here.
Sleep_breaks ==
    /\ pc = "sleep"
    /\ pc' = "stopped"
    /\ UNCHANGED <<db, memo, open_sessions, result, drones, pilots, drones_df,
                   pilots_df, positions, error, fetch_gap>>

Sleep ==
    /\ pc = "sleep"
    /\ Elapse(SLEEP_SECONDS)
    /\ pc' = Following(pc)
    /\ drones' = {}
    /\ pilots' = {}
    /\ drones_df' = NoFrame
    /\ pilots_df' = NoFrame
    /\ positions' = NoPositions
    /\ result' = NoResult
    /\ UNCHANGED <<db, open_sessions, error, fetch_gap>>

Init ==
    /\ db \in [Query -> DroneTables \cup PilotTables]
    /\ db[DRONES] \in DroneTables
    /\ db[PILOTS] \in PilotTables
    /\ memo = [q \in QueryArgs |-> NoEntry]
    /\ open_sessions = 0
    /\ result = NoResult
    /\ pc = "fetch_drones"
    /\ drones = {}
    /\ pilots = {}
    /\ drones_df = NoFrame
    /\ pilots_df = NoFrame
    /\ positions = NoPositions
    /\ error = NoError
    /\ fetch_gap = 0

Loop ==
    \/ FetchDrones
    \/ FetchPilots
    \/ ProcessDrones
    \/ ProcessPilots
    \/ Classify
    \/ Render
    \/ Sleep

Next == Loop \/ Tick \/ Ingest

Spec == Init /\ [][Next]_vars

\* The interpreter keeps executing the loop.
LiveSpec == Spec /\ WF_vars(Loop)

\* run_query called in any order, at any time.
NextCache == Call \/ Tick \/ Ingest

SpecCache == Init /\ [][NextCache]_vars

\* ------------------------------------- the processing applied to any snapshot
\* Drone snapshots of at most MaxRecords records: position_x, the flag and
\* the pilot link each present or missing. violated_pilot_id is unique, so
\* a linked drone sn is linked to a pilot of its own, pilot sn.
DroneCells == {None, 253000} \X {True, False, None} \X {None, True}
Absent == <<>>

DroneInputs ==
    { { Drone(sn, f[sn][1], 254000, f[sn][2], IF f[sn][3] = None THEN None ELSE sn)
        : sn \in { s \in 1..MaxRecords : f[s] /= Absent } }
      : f \in [1..MaxRecords -> DroneCells \cup {Absent}] }

PilotInputs == SUBSET PilotRows

InitClassify ==
    /\ drones \in DroneInputs
    /\ pilots \in PilotInputs
    /\ db = [q \in Query |-> IF q = DRONES THEN drones ELSE pilots]
    /\ memo = [q \in QueryArgs |->
                 IF q = INVALID THEN NoEntry
                 ELSE [present |-> TRUE, value |-> db[q], age |-> 0]]
    /\ open_sessions = 0
    /\ result = NoResult
    /\ pc = "process_drones"
    /\ drones_df = NoFrame
    /\ pilots_df = NoFrame
    /\ positions = NoPositions
    /\ error = NoError
    /\ fetch_gap = 0

NextClassify == ProcessDrones \/ ProcessPilots \/ Classify

SpecClassify == InitClassify /\ [][NextClassify]_vars

\* ------------------------------------------- the distance of any position
\* Offsets from the nest, in the native unit, whose distance is a whole
\* number of meters; a position is the nest plus or minus an offset.
Offsets ==
    { <<0, 0>>, <<600, 800>>, <<3000, 4000>>, <<4000, 3000>>, <<5000, 12000>>,
      <<15000, 8000>>, <<60000, 80000>>, <<100000, 0>>, <<0, 100000>>,
      <<250000, 0>>, <<240000, 70000>> }

PositionInputs ==
    { <<CENTER_X + sx * o[1], CENTER_Y + sy * o[2]>> :
        sx \in {-1, 1}, sy \in {-1, 1}, o \in Offsets }

InitDistance ==
    /\ \E p, q \in PositionInputs :
          drones = { Drone(1, p[1], p[2], True, None), Drone(2, q[1], q[2], False, None) }
    /\ pilots = {}
    /\ db = [q \in Query |-> IF q = DRONES THEN drones ELSE pilots]
    /\ memo = [q \in QueryArgs |->
                 IF q = INVALID THEN NoEntry
                 ELSE [present |-> TRUE, value |-> db[q], age |-> 0]]
    /\ open_sessions = 0
    /\ result = NoResult
    /\ pc = "process_drones"
    /\ drones_df = NoFrame
    /\ pilots_df = NoFrame
    /\ positions = NoPositions
    /\ error = NoError
    /\ fetch_gap = 0

NextDistance == ProcessDrones

SpecDistance == InitDistance /\ [][NextDistance]_vars

\* =============================================================== properties
\* C1: run_query never serves a stale snapshot. Whenever a call of either
\* query returns, the snapshot it returns is the one held by the memo and
\* is younger than TTL; and when the call found an entry of age TTL or
\* more, it read the backing store once, returned the table read and
\* replaced the entry by that table with age 0.
C1_NeverStale ==
    [][\A q \in Query :
          (result'.query = q /\ result'.status = "ok") =>
             /\ result'.age < TTL
             /\ memo'[q] = [present |-> TRUE, value |-> result'.value, age |-> result'.age]
             /\ (memo[q].present /\ memo[q].age >= TTL) =>
                   /\ result'.db_reads = 1
                   /\ result'.value = db[q]
                   /\ memo'[q] = [present |-> TRUE, value |-> db[q], age |-> 0]
      ]_vars

\* C1 witness: a call found an expired entry, read the backing store and
\* returned the new snapshot.
C1_Witness ==
    /\ result.status = "ok"
    /\ result.expired
    /\ result.db_reads = 1
    /\ memo[result.query].age = 0

\* C2: the call that finds no entry of its query reads the backing store
\* once and stores what it returns; a call made while the entry is younger
\* than TTL returns exactly the stored snapshot, reads nothing from the
\* backing store and leaves the entry as it is, whatever the backing store
\* holds by then: one read for the two calls.
C2_HitWithinWindow ==
    [][\A q \in Query :
          /\ (~memo[q].present /\ result'.query = q /\ result'.status = "ok") =>
                /\ result'.db_reads = 1
                /\ memo'[q] = [present |-> TRUE, value |-> result'.value, age |-> 0]
          /\ (memo[q].present /\ memo[q].age < TTL
                 /\ result'.query = q /\ result'.status /= "none") =>
                /\ result'.status = "ok"
                /\ result'.value = memo[q].value
                /\ result'.db_reads = 0
                /\ memo' = memo
                /\ open_sessions' = open_sessions
      ]_vars

\* C2 witness: a call served the stored snapshot although the table had
\* been rewritten since the snapshot was taken.
C2_Witness ==
    /\ result.status = "ok"
    /\ result.hit
    /\ result.age > 0
    /\ result.db_reads = 0
    /\ result.value /= db[result.query]

\* C3: when the classification has run, the three position frames hold
\* pairwise different rows and together exactly the rows of the drone
\* snapshot, one row for each record.
Labels(frame) == { r.index : r \in frame }

C3_Partition ==
    pc = "render" =>
       LET A == Labels(positions.bad_currently_violating)
           B == Labels(positions.bad_not_currently_violating)
           C == Labels(positions.good_drones)
       IN /\ A \cap B = {}
          /\ A \cap C = {}
          /\ B \cap C = {}
          /\ A \cup B \cup C = { d.serial_number : d \in drones }
          /\ Cardinality(positions.bad_currently_violating)
               + Cardinality(positions.bad_not_currently_violating)
               + Cardinality(positions.good_drones) = Cardinality(drones)

\* C3 witness: a classified snapshot with a drone in each category.
C3_Witness ==
    /\ pc = "render"
    /\ positions.bad_currently_violating /= {}
    /\ positions.bad_not_currently_violating /= {}
    /\ positions.good_drones /= {}

\* C4: when the classification has run, a drone is currently violating iff
\* it has no violated_pilot_id and its flag is true, recently violating iff
\* it has no violated_pilot_id and its flag is false, and attributed iff it
\* has a violated_pilot_id, whatever its flag.
C4_CategoryRule ==
    pc = "render" =>
       \A d \in drones :
          /\ d.serial_number \in Labels(positions.bad_currently_violating)
                <=> (d.violated_pilot_id = None /\ d.is_violating_ndz = True)
          /\ d.serial_number \in Labels(positions.bad_not_currently_violating)
                <=> (d.violated_pilot_id = None /\ d.is_violating_ndz = False)
          /\ d.serial_number \in Labels(positions.good_drones)
                <=> d.violated_pilot_id /= None

\* C4 witness: a classified snapshot with a linked drone whose flag is
\* true, a linked drone whose flag is false and an unlinked drone.
C4_Witness ==
    /\ pc = "render"
    /\ \E a, b, c \in drones :
          /\ a.violated_pilot_id /= None /\ a.is_violating_ndz = True
          /\ b.violated_pilot_id /= None /\ b.is_violating_ndz = False
          /\ c.violated_pilot_id = None
          /\ {a.serial_number, b.serial_number} \subseteq Labels(positions.good_drones)

\* C5: a call with an argument that is neither query raises the invalid
\* query error, returns no snapshot, reads nothing from the backing store,
\* opens no session and leaves every memo entry unchanged.
C5_InvalidQuery ==
    [][(result'.query = INVALID /\ result'.status /= "none") =>
          /\ result'.status = "InvalidQuery"
          /\ result'.db_reads = 0
          /\ memo' = memo
          /\ open_sessions' = open_sessions
      ]_vars

\* C5 witness: the invalid call was made while both queries had an entry.
C5_Witness ==
    /\ result.query = INVALID
    /\ result.status = "InvalidQuery"
    /\ memo[DRONES].present
    /\ memo[PILOTS].present

\* The steps of a cycle in the order the claims name them.
CycleOrder ==
    { <<"fetch_drones", "fetch_pilots">>,
      <<"fetch_pilots", "process_drones">>,
      <<"process_drones", "process_pilots">>,
      <<"process_pilots", "classify">>,
      <<"classify", "render">>,
      <<"render", "sleep">>,
      <<"sleep", "fetch_drones">> }

BeforeHandOff == {"process_drones", "process_pilots", "classify"}

\* C6: the loop moves only from the drone fetch to the pilot fetch, on to
\* the processing and classification, to rendering, to the sleep and from
\* the sleep to the drone fetch of the next cycle (or out of the loop);
\* run_query is called at the two fetch steps only, each with its own
\* query; the frames are written before rendering only; and the step from
\* the sleep to the next fetch takes 3 seconds.
C6_CycleOrder ==
    [][/\ pc' /= pc => (<<pc, pc'>> \in CycleOrder \/ pc' = "stopped")
       /\ result'.status /= "none" =>
             \/ pc = "fetch_drones" /\ result'.query = DRONES
             \/ pc = "fetch_pilots" /\ result'.query = PILOTS
       /\ (pc \in {"render", "sleep"} /\ pc' /= "fetch_drones") =>
             UNCHANGED <<drones, pilots, drones_df, pilots_df, positions>>
       /\ (pc = "sleep" /\ pc' = "fetch_drones") =>
             \A q \in Query :
                memo[q].present =>
                   memo'[q].age = IF memo[q].age + SLEEP_SECONDS > MaxAge
                                  THEN MaxAge
                                  ELSE memo[q].age + SLEEP_SECONDS
      ]_vars

\* C6 witness: a later cycle has rendered and sleeps: its drone snapshot
\* was fetched in an earlier cycle.
C6_Witness ==
    /\ pc = "sleep"
    /\ drones_df.columns
    /\ pilots_df.columns
    /\ memo[DRONES].age > memo[PILOTS].age
    /\ memo[DRONES].age >= SLEEP_SECONDS

\* C7: the loop is stopped only with an exception raised in a cycle; the
\* sleep can only be followed by the start of the next cycle; and from
\* every step of a cycle the loop reaches the start of the next cycle
\* unless an exception stops it.
C7_RunsForever ==
    /\ [](pc = "stopped" => error /= NoError)
    /\ [][pc = "sleep" => pc' \in {"sleep", "fetch_drones"}]_vars
    /\ (pc \notin {"fetch_drones", "stopped"}) ~> (pc = "fetch_drones" \/ pc = "stopped")

\* C7 witness: a cycle ended and the next one has started.
C7_Witness ==
    /\ pc = "fetch_drones"
    /\ memo[DRONES].present
    /\ memo[PILOTS].present
    /\ error = NoError

\* C8 as claimed: no cycle whose two fetches succeeded ends in an error
\* before the frames are handed to the rendering.
C8_AlwaysHandsOff ==
    pc = "stopped" => error.at \notin BeforeHandOff

\* C9 as claimed: a missing coordinate never aborts the cycle.
C9_MissingCoordinateTolerated ==
    ~(pc = "stopped" /\ error.type = "TypeError")

\* C10: a failed backing-store read stops the loop in the step that made
\* it, with the frames untouched; and once a read has failed, run_query is
\* not called again, nothing is classified and nothing is rendered, so the
\* failed query is re-issued neither in the same cycle nor less than 3
\* seconds later.
C10_FailedReadAbortsCycle ==
    [][/\ result'.status = "StoreUnavailable" =>
             /\ pc' = "stopped"
             /\ error' = [type |-> "StoreUnavailable", at |-> pc]
             /\ UNCHANGED <<memo, drones, pilots, drones_df, pilots_df, positions>>
       /\ error.type = "StoreUnavailable" =>
             /\ pc = "stopped"
             /\ pc' = "stopped"
             /\ result'.status = "none"
             /\ UNCHANGED <<drones, pilots, drones_df, pilots_df, positions, error>>
      ]_vars

\* C10 witness: the drone fetch succeeded, the pilot fetch failed, and the
\* loop is stopped with nothing processed.
C10_Witness ==
    /\ pc = "stopped"
    /\ error = [type |-> "StoreUnavailable", at |-> "fetch_pilots"]
    /\ memo[DRONES].present
    /\ drones_df = NoFrame
    /\ positions = NoPositions

\* The capture time of a snapshot is now - age: a call returns the capture
\* time of the entry it found iff the age it returns is the entry's age, and
\* a new capture time iff it returns age 0 from a read of the backing store.
SameCapture(q) == result'.hit /\ result'.age = memo[q].age /\ result'.value = memo[q].value
NewCapture(q) == ~result'.hit /\ result'.age = 0 /\ result'.db_reads = 1

\* C11 as claimed: a fetch made 2 time units after the fetch that captured
\* the entry returns the same capture timestamp, and a fetch made 9 time
\* units after it returns a new capture timestamp.
C11_NewAfterNine ==
    [][\A q \in Query :
          (memo[q].present /\ result'.query = q /\ result'.status = "ok") =>
             /\ memo[q].age = 2 => SameCapture(q)
             /\ memo[q].age = 9 => NewCapture(q)
      ]_vars

\* C11 amended: a fetch made 2 time units after the fetch that captured
\* the entry returns the same capture timestamp, and so does a fetch made 9
\* time units after it; a successful fetch made TTL = 10 or more time
\* units after it returns a new capture timestamp.
C11_NewAfterTTL ==
    [][\A q \in Query :
          (memo[q].present /\ result'.query = q /\ result'.status = "ok") =>
             /\ memo[q].age = 2 => SameCapture(q)
             /\ memo[q].age = 9 => SameCapture(q)
             /\ memo[q].age >= TTL => NewCapture(q)
      ]_vars

\* C11 witness: a fetch made 9 time units after the capture was served the
\* stored snapshot.
C11_Witness ==
    /\ result.status = "ok"
    /\ result.hit
    /\ result.age = 9
    /\ memo[result.query].age = 9

\* C12: for every drone with both coordinates present, the distance column
\* holds a d >= 0 with (1000 * d)^2 = (x - 250000)^2 + (y - 250000)^2; the
\* drone at (250000, 250000) gets 0 and the drone at (350000, 250000) 100.
C12_Distance ==
    pc = "process_pilots" =>
       \A r \in drones_df.rows :
          LET d == r.current_distance_from_nest_in_meter IN
          /\ d >= 0
          /\ Square(1000 * d) = Plus(Square(r.position_x - 250000),
                                     Square(r.position_y - 250000))
          /\ (r.position_x = 250000 /\ r.position_y = 250000) => d = 0
          /\ (r.position_x = 350000 /\ r.position_y = 250000) => d = 100

\* C12 witness: the distances of the drone at (350000, 250000) and of a
\* drone off both axes have been computed.
C12_Witness ==
    /\ pc = "process_pilots"
    /\ \E r, o \in drones_df.rows :
          /\ r.position_x = 350000 /\ r.position_y = 250000
          /\ r.current_distance_from_nest_in_meter = 100
          /\ o.position_x = 190000 /\ o.position_y = 330000
          /\ o.current_distance_from_nest_in_meter = 100

\* C13: the distance of the drone at the center is 0, and two drones at
\* positions that are reflections of each other about the center get the
\* same distance.
C13_ReflectionSymmetry ==
    pc = "process_pilots" =>
       /\ \A r \in drones_df.rows :
             (r.position_x = CENTER_X /\ r.position_y = CENTER_Y) =>
                r.current_distance_from_nest_in_meter = 0
       /\ \A r, o \in drones_df.rows :
             (o.position_x = 2 * CENTER_X - r.position_x
                /\ o.position_y = 2 * CENTER_Y - r.position_y) =>
                o.current_distance_from_nest_in_meter =
                   r.current_distance_from_nest_in_meter

\* C13 witness: the distances of two drones on opposite sides of the
\* center, off both axes, have been computed.
C13_Witness ==
    /\ pc = "process_pilots"
    /\ \E r, o \in drones_df.rows :
          /\ r.position_x > CENTER_X /\ r.position_y < CENTER_Y
          /\ o.position_x = 2 * CENTER_X - r.position_x
          /\ o.position_y = 2 * CENTER_Y - r.position_y
          /\ r.current_distance_from_nest_in_meter > 0

\* The states of a memo entry.
EntryState(entry) ==
    IF ~entry.present THEN "ABSENT"
    ELSE IF entry.age < TTL THEN "FRESH"
    ELSE "EXPIRED"

C15_SessionsReleased ==
    /\ result.status /= "none" => open_sessions = 0
    /\ open_sessions <= 1

\* C16: every step of the loop (a fetch that hits, misses or fails, the
\* processing, the classification, the rendering, the sleep) leaves both
\* tables of the backing store as they are, and a step in which a table
\* changes is a step of the external ingestion, which is no call of
\* run_query and changes neither the memo nor anything of the loop.
C16_StoreReadOnly ==
    [][/\ (pc' /= pc \/ result'.status /= "none") => db' = db
       /\ db' /= db =>
             /\ result'.status = "none"
             /\ UNCHANGED <<memo, open_sessions>>
             /\ UNCHANGED loop_vars
      ]_vars

\* C16 witness: a cycle has fetched, classified and rendered, and the
\* tables are those the ingestion wrote after the snapshots were taken.
C16_Witness ==
    /\ pc = "sleep"
    /\ positions.bad_currently_violating /= {}
    /\ db[DRONES] = {}
    /\ db[PILOTS] /= memo[PILOTS].value

\* C17: an entry is stored by a successful read of the backing store, so
\* its age is the time since the latest successful read of its query: a
\* fetch that reads the backing store successfully finds no entry (the
\* first read) or an entry of age TTL or more; and the fetch of the cycle
\* that starts 3 time units after a read reads nothing.
C17_ReadsTTLApart ==
    [][\A q \in Query :
          (result'.query = q /\ result'.status /= "none" /\ memo[q].present) =>
             /\ result'.db_reads = 1 => memo[q].age >= TTL
             /\ memo[q].age = SLEEP_SECONDS => result'.db_reads = 0
      ]_vars

\* C17 witness: the drone fetch of a later cycle read the backing store
\* again, replacing the entry an earlier cycle had stored.
C17_Witness ==
    /\ pc = "fetch_pilots"
    /\ result.query = DRONES
    /\ result.db_reads = 1
    /\ result.expired
    /\ memo[PILOTS].present

\* C18: a call whose read of the backing store fails returns no snapshot
\* and leaves every memo entry, of its own query and of the other, with the
\* snapshot and age, or the absence, it had; and the call of the same query
\* that follows the failure and succeeds reads the backing store and
\* returns the table, not something the failed call left.
C18_FailureNotCached ==
    [][/\ result'.status = "StoreUnavailable" =>
             /\ memo' = memo
             /\ result'.value = {}
             /\ result'.db_reads = 0
       /\ (result.status = "StoreUnavailable" /\ result'.query = result.query
              /\ result'.status = "ok") =>
             /\ result'.db_reads = 1
             /\ result'.value = db[result.query]
             /\ memo'[result.query] = [present |-> TRUE, value |-> db[result.query],
                                       age |-> 0]
      ]_vars

\* C18 witness: the read failed in a call that found an expired entry, the
\* entry still holds its snapshot, and the other query has no entry.
C18_Witness ==
    /\ result.status = "StoreUnavailable"
    /\ result.query = DRONES
    /\ result.expired
    /\ memo[DRONES].present
    /\ memo[DRONES].value /= {}
    /\ ~memo[PILOTS].present

\* The capture time of a snapshot is now - age, so the capture times of the
\* two entries differ by the difference of their ages.
Skew(m) ==
    IF m[DRONES].age >= m[PILOTS].age
    THEN m[DRONES].age - m[PILOTS].age
    ELSE m[PILOTS].age - m[DRONES].age

\* C19 as claimed: the drone snapshot and the pilot snapshot handed to the
\* classification were captured less than TTL apart.
C19_SkewBelowTTL ==
    pc = "classify" => Skew(memo) < TTL

\* C19 amended: each snapshot is younger than TTL when its fetch returns
\* it, and the pilot fetch follows the drone fetch, so the capture times of
\* the two snapshots differ by less than TTL plus the time that passed
\* between the two fetches, and by less than TTL when none passed; the
\* snapshots processed and classified are those two.
C19_SkewBelowTTLPlusGap ==
    /\ [][(pc = "fetch_pilots" /\ pc' = "process_drones") =>
             Skew(memo') < TTL + fetch_gap]_vars
    /\ [](pc \in {"process_drones", "process_pilots", "classify"} =>
             /\ drones = memo[DRONES].value
             /\ pilots = memo[PILOTS].value)

\* C19 witness: the classification is handed a drone snapshot captured
\* TTL before the pilot snapshot, time having passed between the fetches.
C19_Witness ==
    /\ pc = "classify"
    /\ drones_df.rows /= {}
    /\ memo[DRONES].age = TTL
    /\ memo[PILOTS].age = 0
====
